---- MODULE Spec2Model ----
(***************************************************************************)
(* Model of the add-expense and add-credit pages of the expense-splitting  *)
(* application: the form state each page keeps, the handleSubmit handler   *)
(* of each page (validation, split computation, the two store inserts) and *)
(* the expenses / expense_splits tables the handlers write to.             *)
(* The invite page, the create-group page and the dashboard are modelled   *)
(* with the group_members and groups tables they read and write; each has  *)
(* a specification of its own (SpecInvite, SpecGroups), as have loading    *)
(* and filling in the two forms (SpecLoad, SpecRoundTrip).                 *)
(*                                                                         *)
(* Money.  A text field holds a string; the model keeps of it what the     *)
(* handlers look at: whether it is blank, whether parseFloat yields NaN,   *)
(* the parsed value in thousandths of a rupee (milli), and the number of   *)
(* characters after the first '.' (frac).  A JavaScript number holding an  *)
(* amount is kept in thousandths too, so cents / 100 is cents * 10.        *)
(***************************************************************************)
EXTENDS Integers, Sequences, FiniteSets, TLC

\* ---------------------------------------------------------------- bounds
MaxUsers == 3        \* users known to the store
MaxCents == 5        \* largest total typed into the amount field, in cents
MaxShareCents == 3   \* largest custom share typed, in cents
MaxExpenses == 2     \* rows the expenses table may hold

\* ------------------------------------------------------------- constants
null == "null"
GroupRoute == "/groups/[groupId]"
LoginRoute == "/login"

ErrDescriptionEmpty == "Please enter a description."
ErrDescriptionPattern == "Description can only contain letters, numbers, spaces, and basic punctuation."
ErrAmountPositive == "Please enter a valid positive amount."
ErrAmountDecimals == "Amount cannot have more than 2 decimal places."
ErrSelectMember == "Please select at least one member to split between."
ErrNoMembers == "No members available to split this expense."
ErrInvalidShare == "Custom amounts must be non-negative numbers."
ErrTotalMismatch == "Custom amounts must add up exactly to the total amount."
ErrEmptyCustom == "Please enter at least one custom amount."
ErrNoSplits == "Could not compute splits for this expense."
ErrCreditAmount == "Amount must be greater than zero."
ErrSelectBoth == "Please select both who paid and who received."
ErrSameParticipant == "Paid by and Paid to cannot be the same person."
ErrStore == "store error"

\* user ids
U(i) == "u" \o ToString(i)
Users == {U(i) : i \in 1..MaxUsers}

\* ------------------------------------------------------------ text fields
Blank == [txt |-> "blank", milli |-> 0, frac |-> 0]
Garbage == [txt |-> "nan", milli |-> 0, frac |-> 0]
Num(m, f) == [txt |-> "num", milli |-> m, frac |-> f]

\* Strings of whole cents, "0.01" .. : two characters after the point.
CentStrings(n) == {Num(10 * c, 2) : c \in 1..n}

\* What can be typed into the amount field.
AmountEntries ==
    {Blank, Garbage, Num(-10, 2), Num(0, 0), Num(15, 3), Num(1, 0)}
        \cup CentStrings(MaxCents)

\* What can be typed into one member's custom share field.
ShareEntries ==
    {Blank, Garbage, Num(-10, 2), Num(0, 0), Num(4, 3), Num(5, 3)}
        \cup CentStrings(MaxShareCents)

\* What can be typed into the description field, and the typed strings
\* that match /^[A-Za-z0-9 ,.!?'"-]+$/ after trimming.
Descriptions == {"", "Dinner #1", "Dinner"}
DescriptionPattern == {"Dinner"}

\* Number.isNaN(parseFloat(s))
IsNaN(e) == e.txt # "num"
\* parseFloat(s), in thousandths
ParseFloat(e) == e.milli

\* Values v (in thousandths, below 3.000) with v mod 10 = 5 for which the
\* double nearest to v/1000, times 100, falls below the half and
\* Math.round rounds down.
HalfRoundsDown ==
    {145, 285, 565, 575, 1005, 1015, 1025, 1035, 1255, 1265, 1275,
     2135, 2155, 2175, 2195, 2385, 2405, 2425, 2445}

\* Math.round(value * 100) for a value in thousandths
RoundCents(m) ==
    IF m % 10 = 5 /\ m \in HalfRoundsDown THEN m \div 10 ELSE (m + 5) \div 10

\* cents / 100 as a number, in thousandths
CentsToAmount(c) == c * 10

Range(s) == {s[i] : i \in 1..Len(s)}

\* Sequences without repetition over S
SeqsOver(S) ==
    UNION {{s \in [1..n -> S] : \A i, j \in 1..n : i # j => s[i] # s[j]} :
             n \in 0..Cardinality(S)}

\* Lists the group_members query can return
MemberLists == SeqsOver(Users)
\* The first n users in id order, ascending and descending
Ascending(n) == [i \in 1..n |-> U(i)]
Descending(n) == [i \in 1..n |-> U(n + 1 - i)]
OrderedLists == UNION {{Ascending(n), Descending(n)} : n \in 0..MaxUsers}

VARIABLES
    page,               \* which page is mounted: "expense" or "credit"
    currentUser,        \* useState currentUser (the id, or null)
    members,            \* useState members: sequence of user ids
    description,        \* useState description
    amount,             \* useState amount (text field)
    paidBy,             \* useState paidBy
    paidTo,             \* useState paidTo (credit page)
    expenseType,        \* useState expenseType
    splitType,          \* useState splitType
    selectedMemberIds,  \* useState selectedMemberIds
    customShares,       \* useState customShares: user id -> text field
    descriptionError,
    amountError,
    splitError,
    participantError,
    generalError,
    route,              \* "page" while the page is shown, else where the router went
    pc,                 \* "idle" before the first handleSubmit, "returned" after one
    splits,             \* the split rows the last handleSubmit built
    expenses,           \* table expenses, in insertion order; a row's id is its index
    expense_splits,     \* table expense_splits, in insertion order
    group_members,      \* table group_members, in insertion order
    invite,             \* the open invite pages: client -> state of its page
    isLoading,          \* useState isLoading of the add-expense / add-credit page
    toggles,            \* history: user id -> toggleSelectedMember calls so far
    groups,             \* table groups, in insertion order; a row's id is its index
    create,             \* the create-group page
    dashboard           \* the dashboard page

form == <<page, currentUser, members, description, amount, paidBy, paidTo,
          expenseType, splitType, selectedMemberIds, customShares>>
errors == <<descriptionError, amountError, splitError, participantError,
            generalError>>
\* The groups table and the two pages that work on it
groupPages == <<groups, create, dashboard>>
vars == <<form, errors, route, pc, splits, expenses, expense_splits,
          group_members, invite, isLoading, toggles, groupPages>>

\* ------------------------------------------------------------- validation
\* description.trim() checks
DescriptionCheck(d) ==
    IF d = "" THEN ErrDescriptionEmpty
    ELSE IF d \notin DescriptionPattern THEN ErrDescriptionPattern
    ELSE null

\* amount checks; msg is the page's message for a non-positive amount
AmountCheck(a, msg) ==
    IF a.txt = "blank" \/ IsNaN(a) \/ ParseFloat(a) <= 0 THEN msg
    ELSE IF a.frac > 2 THEN ErrAmountDecimals
    ELSE null

\* ------------------------------------------------------ split computation
ParticipantIdsAlwaysMembers(st, mem, sel) == mem

ParticipantIds(st, mem, sel) ==
    IF st = "equal_all" THEN mem
    ELSE IF st = "equal_selected" THEN sel
    ELSE mem

\* EqualSplits without the remainder cents
EqualSplitsNoRemainder(totalCents, participantIds) ==
    LET count == Len(participantIds)
        baseCents == totalCents \div count
    IN  [i \in 1..count |->
            [user_id |-> participantIds[i], amount |-> CentsToAmount(baseCents)]]

\* EqualSplits with the remainder cents given to the last participants
EqualSplitsRemainderLast(totalCents, participantIds) ==
    LET count == Len(participantIds)
        baseCents == totalCents \div count
        remainder == totalCents - baseCents * count
    IN  [i \in 1..count |->
            [user_id |-> participantIds[i],
             amount |-> CentsToAmount(baseCents +
                                      (IF i - 1 >= count - remainder THEN 1 ELSE 0))]]

\* EqualSplits in which the first user of the group never gets an extra cent
EqualSplitsSparesFirstUser(totalCents, participantIds) ==
    LET count == Len(participantIds)
        baseCents == totalCents \div count
        remainder == totalCents - baseCents * count
    IN  [i \in 1..count |->
            [user_id |-> participantIds[i],
             amount |-> CentsToAmount(baseCents +
                           (IF i - 1 < remainder /\ participantIds[i] # U(1)
                            THEN 1 ELSE 0))]]

\* The forEach of the equal branch
EqualSplits(totalCents, participantIds) ==
    LET count == Len(participantIds)
        baseCents == totalCents \div count
        remainder == totalCents - baseCents * count
    IN  [i \in 1..count |->
            [user_id |-> participantIds[i],
             amount |-> CentsToAmount(baseCents + (IF i - 1 < remainder THEN 1 ELSE 0))]]

\* CustomStep that pushes the typed value instead of cents / 100 and keeps
\* shares of zero cents
CustomStepUnrounded(acc, userId, shares) ==
    LET raw == shares[userId]
        value == ParseFloat(raw)
        cents == RoundCents(value)
    IN  IF raw.txt = "blank" THEN acc
        ELSE IF IsNaN(raw) \/ value < 0
             THEN [acc EXCEPT !.splitError = ErrInvalidShare]
        ELSE [acc EXCEPT !.sumCents = @ + cents,
                         !.customSplits =
                             Append(@, [user_id |-> userId, amount |-> value])]

\* One call of the callback of members.forEach in the custom branch.
\* acc holds the variables the callback closes over.
CustomStep(acc, userId, shares) ==
    LET raw == shares[userId]
        value == ParseFloat(raw)
        cents == RoundCents(value)
    IN  IF raw.txt = "blank" THEN acc
        ELSE IF IsNaN(raw) \/ value < 0
             THEN [acc EXCEPT !.splitError = ErrInvalidShare]
        ELSE IF cents > 0
             THEN [acc EXCEPT !.sumCents = @ + cents,
                              !.customSplits =
                                  Append(@, [user_id |-> userId,
                                             amount |-> CentsToAmount(cents)])]
        ELSE acc

RECURSIVE CustomLoop(_, _, _, _)
CustomLoop(mem, shares, i, acc) ==
    IF i > Len(mem) THEN acc
    ELSE CustomLoop(mem, shares, i + 1, CustomStep(acc, mem[i], shares))

RECURSIVE SumValues(_, _, _)
SumValues(mem, shares, i) ==
    IF i > Len(mem) THEN 0
    ELSE (IF IsNaN(shares[mem[i]]) \/ ParseFloat(shares[mem[i]]) < 0 THEN 0
          ELSE ParseFloat(shares[mem[i]])) + SumValues(mem, shares, i + 1)

\* CustomSplits comparing the rounded sum of the typed values, not the sum of
\* the rounded cents
CustomSplitsRoundedSum(totalCents, mem, shares) ==
    LET acc == CustomLoop(mem, shares, 1,
                          [sumCents |-> 0, customSplits |-> <<>>, splitError |-> null])
    IN  IF RoundCents(SumValues(mem, shares, 1)) # totalCents
        THEN [ok |-> FALSE, splitError |-> ErrTotalMismatch, splits |-> <<>>]
        ELSE IF Len(acc.customSplits) = 0
        THEN [ok |-> FALSE, splitError |-> ErrEmptyCustom, splits |-> <<>>]
        ELSE [ok |-> TRUE, splitError |-> acc.splitError, splits |-> acc.customSplits]

\* The custom branch: the loop and the two checks after it
CustomSplits(totalCents, mem, shares) ==
    LET acc == CustomLoop(mem, shares, 1,
                          [sumCents |-> 0, customSplits |-> <<>>, splitError |-> null])
    IN  IF acc.sumCents # totalCents
        THEN [ok |-> FALSE, splitError |-> ErrTotalMismatch, splits |-> <<>>]
        ELSE IF Len(acc.customSplits) = 0
        THEN [ok |-> FALSE, splitError |-> ErrEmptyCustom, splits |-> <<>>]
        ELSE [ok |-> TRUE, splitError |-> acc.splitError, splits |-> acc.customSplits]

\* BuildSplits with the array kept from one call of the handler to the next
BuildSplitsKeepsPrevious(previous, lines) == previous \o lines

\* const splits = [] at the start of a call, then the pushes of the branch:
\* what an earlier call built (previous) is not in it
BuildSplits(previous, lines) == lines

\* From the participant list to the built splits: ok says whether the handler
\* goes on to the store, splitError is the value splitError is left with.
Allocate(st, totalCents, mem, sel, shares) ==
    LET participantIds == ParticipantIds(st, mem, sel)
        r == IF st = "custom"
             THEN CustomSplits(totalCents, mem, shares)
             ELSE IF Len(participantIds) = 0
             THEN [ok |-> FALSE, splitError |-> ErrNoMembers, splits |-> <<>>]
             ELSE [ok |-> TRUE, splitError |-> null,
                   splits |-> EqualSplits(totalCents, participantIds)]
    IN  IF st = "equal_selected" /\ Len(participantIds) = 0
        THEN [ok |-> FALSE, splitError |-> ErrSelectMember, splits |-> <<>>]
        ELSE IF r.ok /\ Len(r.splits) = 0
        THEN [ok |-> FALSE, splitError |-> ErrNoSplits, splits |-> <<>>]
        ELSE r

\* ------------------------------------------------------------------ store
ExpenseRow(d, a, by, st, cu, ty) ==
    [description |-> d, amount |-> a, paid_by |-> by, split_type |-> st,
     created_by |-> cu, type |-> ty]

\* SplitRows that loses the last line
SplitRowsDropLast(expenseId, rows) ==
    [i \in 1..(Len(rows) - 1) |->
        [expense_id |-> expenseId, user_id |-> rows[i].user_id,
         amount |-> rows[i].amount]]

\* splits.map(...) of the add-expense page
SplitRows(expenseId, rows) ==
    [i \in 1..Len(rows) |->
        [expense_id |-> expenseId, user_id |-> rows[i].user_id,
         amount |-> rows[i].amount]]

\* CreditSplits with the payer's sign lost
CreditSplitsUnsigned(expenseId, by, to, numericAmount) ==
    << [expense_id |-> expenseId, user_id |-> by, amount |-> numericAmount],
       [expense_id |-> expenseId, user_id |-> to, amount |-> numericAmount] >>

\* The two rows the add-credit page builds
CreditSplits(expenseId, by, to, numericAmount) ==
    << [expense_id |-> expenseId, user_id |-> by, amount |-> 0 - numericAmount],
       [expense_id |-> expenseId, user_id |-> to, amount |-> numericAmount] >>

\* The id the store gives the next expenses row
NextExpenseId == Len(expenses) + 1

\* The try block of both handlers: insert the expenses row, then the split
\* rows built with its id.  Either insert can fail.
StoreInserts(row, splitRows) ==
    \E expenseOk \in BOOLEAN, splitsOk \in BOOLEAN :
        IF ~expenseOk
        THEN /\ generalError' = ErrStore
             /\ UNCHANGED <<expenses, expense_splits, route>>
        ELSE /\ expenses' = Append(expenses, row)
             /\ IF ~splitsOk
                THEN /\ generalError' = ErrStore
                     /\ UNCHANGED <<expense_splits, route>>
                ELSE /\ expense_splits' = expense_splits \o splitRows
                     /\ generalError' = null
                     /\ route' = GroupRoute

\* An early return of a handler: the messages it leaves, nothing stored
Reject(d, a, s, p) ==
    /\ descriptionError' = d
    /\ amountError' = a
    /\ splitError' = s
    /\ participantError' = p
    /\ generalError' = null
    /\ splits' = <<>>
    /\ UNCHANGED <<expenses, expense_splits, route>>

\* ------------------------------------------------------- add-expense page
HandleSubmitExpense ==
    /\ page = "expense"
    /\ route = "page"
    /\ ~isLoading
    /\ Len(expenses) < MaxExpenses
    /\ pc' = "returned"
    /\ UNCHANGED <<form, group_members, invite, isLoading, toggles, groupPages>>
    /\ LET dErr == DescriptionCheck(description)
           aErr == AmountCheck(amount, ErrAmountPositive)
           numericAmount == ParseFloat(amount)
           totalCents == RoundCents(numericAmount)
           r == Allocate(splitType, totalCents, members, selectedMemberIds,
                         customShares)
           built == BuildSplits(splits, r.splits)
           row == ExpenseRow(description, numericAmount, paidBy, splitType,
                             currentUser, expenseType)
       IN  IF dErr # null THEN Reject(dErr, null, null, null)
           ELSE IF aErr # null THEN Reject(null, aErr, null, null)
           ELSE IF currentUser = null
           THEN /\ route' = LoginRoute
                /\ splits' = <<>>
                /\ UNCHANGED <<expenses, expense_splits>>
                /\ descriptionError' = null /\ amountError' = null
                /\ splitError' = null /\ participantError' = null
                /\ generalError' = null
           ELSE IF ~r.ok THEN Reject(null, null, r.splitError, null)
           ELSE /\ descriptionError' = null
                /\ amountError' = null
                /\ splitError' = r.splitError
                /\ participantError' = null
                /\ splits' = built
                /\ StoreInserts(row, SplitRows(NextExpenseId, built))

\* -------------------------------------------------------- add-credit page
\* paidBy === paidTo
SameParticipantInverted(by, to) == by # to
SameParticipant(by, to) == by = to

\* The two checks on paidBy / paidTo
ParticipantCheck(by, to) ==
    IF by = "" \/ to = "" THEN ErrSelectBoth
    ELSE IF SameParticipant(by, to) THEN ErrSameParticipant
    ELSE null

HandleSubmitCredit ==
    /\ page = "credit"
    /\ route = "page"
    /\ ~isLoading
    /\ Len(expenses) < MaxExpenses
    /\ pc' = "returned"
    /\ UNCHANGED <<form, group_members, invite, isLoading, toggles, groupPages>>
    /\ LET dErr == DescriptionCheck(description)
           aErr == AmountCheck(amount, ErrCreditAmount)
           pErr == ParticipantCheck(paidBy, paidTo)
           numericAmount == ParseFloat(amount)
           row == ExpenseRow(description, numericAmount, paidBy, "custom",
                             currentUser, "credit")
           rows == CreditSplits(NextExpenseId, paidBy, paidTo, numericAmount)
       IN  IF dErr # null THEN Reject(dErr, null, null, null)
           ELSE IF aErr # null THEN Reject(null, aErr, null, null)
           ELSE IF pErr # null THEN Reject(null, null, null, pErr)
           ELSE IF currentUser = null
           THEN /\ route' = LoginRoute
                /\ splits' = <<>>
                /\ UNCHANGED <<expenses, expense_splits>>
                /\ descriptionError' = null /\ amountError' = null
                /\ splitError' = null /\ participantError' = null
                /\ generalError' = null
           ELSE IF SameParticipant(paidBy, paidTo)
           THEN Reject(null, null, null, ErrSameParticipant)
           ELSE /\ descriptionError' = null
                /\ amountError' = null
                /\ splitError' = null
                /\ participantError' = null
                /\ splits' = rows
                /\ StoreInserts(row, rows)

\* ------------------------------------------------------------------- Init
AllBlank == [u \in Users |-> Blank]

\* Default "Paid By" of the add-expense page
DefaultPaidBy(mem, cu) ==
    IF cu \in Range(mem) THEN cu
    ELSE IF Len(mem) > 0 THEN mem[1]
    ELSE ""

\* The group_members rows of a group whose members are ids: the creator is
\* the admin, the others were invited
MemberRows(groupId, ids) ==
    [i \in 1..Len(ids) |->
        [group_id |-> groupId, user_id |-> ids[i],
         role |-> IF i = 1 THEN "admin" ELSE "member"]]

\* No create-group page and no dashboard open, one group in the store
NoGroupPages ==
    /\ groups = <<[name |-> "Trip", created_by |-> U(1)]>>
    /\ create = <<>>
    /\ dashboard = <<>>

\* The form as loadData left it: nothing submitted yet, no expense stored,
\* no invite page open
Fresh ==
    /\ descriptionError = null /\ amountError = null /\ splitError = null
    /\ participantError = null /\ generalError = null
    /\ route = "page" /\ pc = "idle" /\ splits = <<>>
    /\ expenses = <<>> /\ expense_splits = <<>>
    /\ group_members = MemberRows("g1", members)
    /\ invite = <<>>
    /\ isLoading = FALSE
    /\ toggles = [u \in Users |-> IF u \in Range(selectedMemberIds) THEN 1 ELSE 0]
    /\ NoGroupPages

\* The add-expense form with an equal split chosen
InitEqual ==
    /\ page = "expense" /\ currentUser = U(1)
    /\ members \in MemberLists
    /\ description = "Dinner"
    /\ amount \in AmountEntries
    /\ paidBy = DefaultPaidBy(members, currentUser)
    /\ paidTo = ""
    /\ expenseType = "expense"
    /\ splitType \in {"equal_all", "equal_selected"}
    /\ selectedMemberIds \in SeqsOver(Range(members))
    /\ customShares = AllBlank
    /\ Fresh

\* The add-expense form with a custom split chosen
InitCustom ==
    /\ page = "expense" /\ currentUser = U(1)
    /\ members \in OrderedLists
    /\ description = "Dinner"
    /\ amount \in CentStrings(MaxCents) \cup {Num(1, 0)}
    /\ paidBy = DefaultPaidBy(members, currentUser)
    /\ paidTo = ""
    /\ expenseType = "expense"
    /\ splitType = "custom"
    /\ selectedMemberIds = <<>>
    /\ customShares \in {f \in [Users -> ShareEntries] :
                            \A u \in Users \ Range(members) : f[u] = Blank}
    /\ Fresh

\* The add-expense form with the fields that do not enter the split
InitFields ==
    /\ page = "expense" /\ currentUser \in Users
    /\ members \in OrderedLists
    /\ description \in Descriptions
    /\ amount \in {Blank, Num(10 * MaxCents, 2)}
    /\ paidBy \in Range(members) \cup {DefaultPaidBy(members, currentUser)}
    /\ paidTo = ""
    /\ expenseType \in {"expense", "credit"}
    /\ splitType = "equal_all"
    /\ selectedMemberIds = <<>>
    /\ customShares = AllBlank
    /\ Fresh

\* The add-credit form
InitCredit ==
    /\ page = "credit" /\ currentUser = U(1)
    /\ members \in MemberLists
    /\ \/ description = "Dinner" /\ amount \in AmountEntries
       \/ description \in Descriptions /\ amount = Num(10 * MaxCents, 2)
    /\ IF Len(members) = 0
       THEN paidBy = "" /\ paidTo = ""
       ELSE /\ paidBy \in Range(members) \cup {currentUser}
            /\ paidTo \in Range(members)
    /\ expenseType = "expense"
    /\ splitType = "equal_all"
    /\ selectedMemberIds = <<>>
    /\ customShares = AllBlank
    /\ Fresh

Init == InitEqual \/ InitCustom \/ InitFields \/ InitCredit

Next == HandleSubmitExpense \/ HandleSubmitCredit

Spec == Init /\ [][Next]_vars

\* ---------------------------------------------- editing the split details
\* onClick of the three split type buttons
SetSplitType(st) ==
    /\ page = "expense"
    /\ route = "page"
    /\ ~isLoading
    /\ splitType' = st
    /\ UNCHANGED <<page, currentUser, members, description, amount, paidBy,
                   paidTo, expenseType, selectedMemberIds, customShares>>
    /\ UNCHANGED <<errors, route, pc, splits, expenses, expense_splits,
                   group_members, invite, isLoading, toggles, groupPages>>

\* onChange of a member's custom share field, shown while the split type is
\* custom
HandleCustomShareChange(userId, value) ==
    /\ page = "expense"
    /\ route = "page"
    /\ ~isLoading
    /\ splitType = "custom"
    /\ userId \in Range(members)
    /\ customShares' = [customShares EXCEPT ![userId] = value]
    /\ UNCHANGED <<page, currentUser, members, description, amount, paidBy,
                   paidTo, expenseType, splitType, selectedMemberIds>>
    /\ UNCHANGED <<errors, route, pc, splits, expenses, expense_splits,
                   group_members, invite, isLoading, toggles, groupPages>>

\* The text of a number of whole cents: "0", "0.1", "0.01"
FormatAmount(a) ==
    Num(a, IF a % 1000 = 0 THEN 0 ELSE IF a % 100 = 0 THEN 1 ELSE 2)

\* After an equal split whose inserts failed, the user switches to custom ...
SwitchToCustom ==
    /\ splits # <<>>
    /\ splitType # "custom"
    /\ SetSplitType("custom")

\* ... and types the amounts of the built lines into the share fields
TypeLineAsShare ==
    \E i \in 1..Len(splits) :
        /\ customShares[splits[i].user_id] # FormatAmount(splits[i].amount)
        /\ HandleCustomShareChange(splits[i].user_id,
                                   FormatAmount(splits[i].amount))

NextRoundTrip == HandleSubmitExpense \/ SwitchToCustom \/ TypeLineAsShare

\* An equal split, then its lines fed back as custom shares
SpecRoundTrip == InitEqual /\ [][NextRoundTrip]_vars

\* ------------------------------------------------------------ invite page
MaxMemberRows == 4   \* rows the group_members table may hold

ErrEmailEmpty == "Please enter an email address."
ErrEmailPattern == "Please enter a valid email address."
ErrSelfInvite == "You cannot invite yourself to the group."
ErrNoAccount == "No account found with this email"
ErrCheckMembers == "Could not check existing members. Please try again."
ErrAlreadyMember == "This person is already in the group."
MsgMemberAdded == "Member added to the group."

\* Two browser sessions with the invite page open
Clients == {"c1", "c2"}

\* profiles.email of a user
Email(u) == u \o "@x.io"
\* An address no profile has, and text that is no address
UnknownEmail == "nobody@x.io"
\* What is typed into the email field
RawEmails == {"", "bad", UnknownEmail, Email(U(2)), " U3@X.IO "}

\* inviteEmail.trim().toLowerCase()
TrimLower(raw) == IF raw = " U3@X.IO " THEN Email(U(3)) ELSE raw
\* The strings /^[^\s@]+@[^\s@]+\.[^\s@]+$/ accepts
EmailPattern == {Email(u) : u \in Users} \cup {UnknownEmail}

\* The user ids loadPageData puts in members: the rows of the group
LoadedMembers(groupId) ==
    LET Rec(rows) == [i \in 1..Len(rows) |-> rows[i].user_id]
    IN  Rec(SelectSeq(group_members, LAMBDA r : r.group_id = groupId))

\* The state of an invite page once loadPageData is through
InvitePage(groupId, user, loaded) ==
    [groupId |-> groupId, currentUser |-> user, members |-> loaded,
     inviteEmail |-> "", error |-> null, success |-> null,
     emailError |-> null, isSubmitting |-> FALSE, route |-> "page",
     pc |-> "idle", email |-> "", userId |-> null]

\* One step of client c changes its page only
OnlyInvite ==
    UNCHANGED <<form, errors, route, pc, splits, expenses, expense_splits,
                isLoading, toggles, groupPages>>

\* onChange of the email field
HandleInviteEmailChange(c, value) ==
    /\ c \in DOMAIN invite
    /\ invite[c].route = "page"
    /\ invite[c].pc = "idle"
    /\ invite[c].inviteEmail # value
    /\ invite' = [invite EXCEPT ![c].inviteEmail = value]
    /\ UNCHANGED group_members
    /\ OnlyInvite

\* handleSubmit up to its first await: the checks of the typed address
HandleSubmitInvite(c) ==
    /\ c \in DOMAIN invite
    /\ invite[c].route = "page"
    /\ invite[c].pc = "idle"
    /\ ~invite[c].isSubmitting
    /\ LET cleared == [invite[c] EXCEPT !.error = null, !.success = null,
                                        !.emailError = null]
           email == TrimLower(invite[c].inviteEmail)
           after ==
             IF email = ""
             THEN [cleared EXCEPT !.emailError = ErrEmailEmpty]
             ELSE IF email \notin EmailPattern
             THEN [cleared EXCEPT !.emailError = ErrEmailPattern]
             ELSE IF cleared.currentUser = null
             THEN [cleared EXCEPT !.route = LoginRoute]
             ELSE IF Email(cleared.currentUser) = email
             THEN [cleared EXCEPT !.error = ErrSelfInvite]
             ELSE [cleared EXCEPT !.isSubmitting = TRUE, !.email = email,
                                  !.pc = "profile"]
       IN  invite' = [invite EXCEPT ![c] = after]
    /\ UNCHANGED group_members
    /\ OnlyInvite

\* The handler leaves through finally; its locals are gone
Finally(rec) ==
    [rec EXCEPT !.isSubmitting = FALSE, !.pc = "idle", !.email = "",
                !.userId = null]

\* handleSubmit from the answer of the profiles query to its next await
AwaitProfile(c) ==
    /\ c \in DOMAIN invite
    /\ invite[c].pc = "profile"
    /\ \E profileOk \in BOOLEAN :
         LET found == {u \in Users : Email(u) = invite[c].email}
             after ==
               IF ~profileOk \/ found = {}
               THEN Finally([invite[c] EXCEPT !.error = ErrNoAccount])
               ELSE [invite[c] EXCEPT !.userId = CHOOSE u \in found : TRUE,
                                      !.pc = "existing"]
         IN  invite' = [invite EXCEPT ![c] = after]
    /\ UNCHANGED group_members
    /\ OnlyInvite

\* The rows the existing-member query selects
ExistingRowsOfAnyUser(groupId, userId) ==
    {i \in 1..Len(group_members) : group_members[i].group_id = groupId}
ExistingRows(groupId, userId) ==
    {i \in 1..Len(group_members) :
        /\ group_members[i].group_id = groupId
        /\ group_members[i].user_id = userId}

\* handleSubmit from the answer of the existing-member query to its next
\* await.  maybeSingle() gives data null without error for no row, the row
\* for one row, and error PGRST116 with data null for several rows.
AwaitExistingMember(c) ==
    /\ c \in DOMAIN invite
    /\ invite[c].pc = "existing"
    /\ \E queryOk \in BOOLEAN :
         LET rows == ExistingRows(invite[c].groupId, invite[c].userId)
             after ==
               IF ~queryOk
               THEN Finally([invite[c] EXCEPT !.error = ErrCheckMembers])
               ELSE IF Cardinality(rows) = 1
               THEN Finally([invite[c] EXCEPT !.error = ErrAlreadyMember])
               ELSE [invite[c] EXCEPT !.pc = "insert"]
         IN  invite' = [invite EXCEPT ![c] = after]
    /\ UNCHANGED group_members
    /\ OnlyInvite

\* handleSubmit from the answer of the insert to its end
AwaitInsert(c) ==
    /\ c \in DOMAIN invite
    /\ invite[c].pc = "insert"
    /\ \E insertOk \in BOOLEAN :
         IF ~insertOk
         THEN /\ invite' = [invite EXCEPT
                              ![c] = Finally([@ EXCEPT !.error = ErrStore])]
              /\ UNCHANGED group_members
         ELSE /\ Len(group_members) < MaxMemberRows
              /\ group_members' =
                   Append(group_members,
                          [group_id |-> invite[c].groupId,
                           user_id |-> invite[c].userId, role |-> "member"])
              /\ invite' = [invite EXCEPT
                              ![c] = Finally([@ EXCEPT
                                  !.members = Append(@, invite[c].userId),
                                  !.inviteEmail = "",
                                  !.success = MsgMemberAdded])]
    /\ OnlyInvite

\* Group g1 created by u1, group g2 by u2; u1 has the invite page of g1 open,
\* and so has another session
InitInvite ==
    /\ page = "invite" /\ currentUser = null /\ members = <<>>
    /\ description = "" /\ amount = Blank /\ paidBy = "" /\ paidTo = ""
    /\ expenseType = "expense" /\ splitType = "equal_all"
    /\ selectedMemberIds = <<>> /\ customShares = AllBlank
    /\ descriptionError = null /\ amountError = null /\ splitError = null
    /\ participantError = null /\ generalError = null
    /\ route = "page" /\ pc = "idle" /\ splits = <<>>
    /\ expenses = <<>> /\ expense_splits = <<>>
    /\ group_members = MemberRows("g1", <<U(1)>>) \o MemberRows("g2", <<U(2)>>)
    /\ isLoading = TRUE
    /\ toggles = [u \in Users |-> 0]
    /\ groups = <<[name |-> "Trip", created_by |-> U(1)],
                  [name |-> "Flat", created_by |-> U(2)]>>
    /\ create = <<>>
    /\ dashboard = <<>>
    /\ \E u \in Users :
         invite = [c \in Clients |->
                     InvitePage("g1", IF c = "c1" THEN U(1) ELSE u,
                                LoadedMembers("g1"))]

NextInvite ==
    \E c \in Clients :
        \/ \E value \in RawEmails : HandleInviteEmailChange(c, value)
        \/ HandleSubmitInvite(c)
        \/ AwaitProfile(c)
        \/ AwaitExistingMember(c)
        \/ AwaitInsert(c)

SpecInvite == InitInvite /\ [][NextInvite]_vars

\* ------------------------------------- loading and filling in the two forms
MaxToggles == 2      \* toggleSelectedMember calls per member

DashboardRoute == "/dashboard"
ErrVerifyAccess == "Could not verify your access to this group."
ErrLoadMembers == "Could not load group members."
ErrLoadDetails == "Could not load member details."

\* loadData of the add-expense and the add-credit page, for the user that
\* supabase.auth.getUser() answers (null: none or an error) and the three
\* store queries that can each fail.  maybeSingle() on the user's membership
\* gives the row only when there is exactly one.
LoadData(authUser, membershipOk, membersOk, profilesOk) ==
    /\ page \in {"expense", "credit"}
    /\ isLoading
    /\ route = "page"
    /\ UNCHANGED <<page, description, amount, expenseType, splitType,
                   selectedMemberIds, customShares>>
    /\ UNCHANGED <<descriptionError, amountError, splitError, participantError,
                   pc, splits, expenses, expense_splits, group_members, invite,
                   toggles, groupPages>>
    /\ LET userIds == LoadedMembers("g1")
           firstOther ==
             IF \E i \in 1..Len(userIds) : userIds[i] # authUser
             THEN userIds[CHOOSE i \in 1..Len(userIds) :
                            /\ userIds[i] # authUser
                            /\ \A j \in 1..(i - 1) : userIds[j] = authUser]
             ELSE userIds[1]
       IN  IF authUser = null
           THEN /\ route' = LoginRoute
                /\ UNCHANGED <<currentUser, members, paidBy, paidTo,
                               generalError, isLoading>>
           ELSE /\ currentUser' = authUser
                /\ IF ~membershipOk
                   THEN /\ generalError' = ErrVerifyAccess
                        /\ isLoading' = FALSE
                        /\ UNCHANGED <<members, paidBy, paidTo, route>>
                   ELSE IF Cardinality(ExistingRows("g1", authUser)) # 1
                   THEN /\ route' = DashboardRoute
                        /\ UNCHANGED <<members, paidBy, paidTo, generalError,
                                       isLoading>>
                   ELSE IF ~membersOk
                   THEN /\ generalError' = ErrLoadMembers
                        /\ isLoading' = FALSE
                        /\ UNCHANGED <<members, paidBy, paidTo, route>>
                   ELSE IF Len(userIds) = 0
                   THEN /\ members' = <<>>
                        /\ isLoading' = FALSE
                        /\ UNCHANGED <<paidBy, paidTo, generalError, route>>
                   ELSE IF ~profilesOk
                   THEN /\ generalError' = ErrLoadDetails
                        /\ isLoading' = FALSE
                        /\ UNCHANGED <<members, paidBy, paidTo, route>>
                   ELSE /\ members' = userIds
                        /\ IF page = "expense"
                           THEN /\ paidBy' = DefaultPaidBy(userIds, authUser)
                                /\ UNCHANGED paidTo
                           ELSE /\ paidBy' = authUser
                                /\ paidTo' = firstOther
                        /\ isLoading' = FALSE
                        /\ UNCHANGED <<generalError, route>>

\* The form is on the screen
FormShown == page \in {"expense", "credit"} /\ route = "page" /\ ~isLoading

\* onChange of the description field
HandleDescriptionChange(value) ==
    /\ FormShown
    /\ description' = value
    /\ UNCHANGED <<page, currentUser, members, amount, paidBy, paidTo,
                   expenseType, splitType, selectedMemberIds, customShares>>
    /\ UNCHANGED <<errors, route, pc, splits, expenses, expense_splits,
                   group_members, invite, isLoading, toggles, groupPages>>

\* onChange of the amount field
HandleAmountChange(value) ==
    /\ FormShown
    /\ amount' = value
    /\ UNCHANGED <<page, currentUser, members, description, paidBy, paidTo,
                   expenseType, splitType, selectedMemberIds, customShares>>
    /\ UNCHANGED <<errors, route, pc, splits, expenses, expense_splits,
                   group_members, invite, isLoading, toggles, groupPages>>

SetPaidByAnyUser(userId) ==
    /\ FormShown
    /\ paidBy' = userId
    /\ UNCHANGED <<page, currentUser, members, description, amount, paidTo,
                   expenseType, splitType, selectedMemberIds, customShares>>
    /\ UNCHANGED <<errors, route, pc, splits, expenses, expense_splits,
                   group_members, invite, isLoading, toggles, groupPages>>
\* onChange of the "Paid by" select: its options are the loaded members
SetPaidBy(userId) ==
    /\ FormShown
    /\ userId \in Range(members)
    /\ paidBy' = userId
    /\ UNCHANGED <<page, currentUser, members, description, amount, paidTo,
                   expenseType, splitType, selectedMemberIds, customShares>>
    /\ UNCHANGED <<errors, route, pc, splits, expenses, expense_splits,
                   group_members, invite, isLoading, toggles, groupPages>>

\* onChange of the "Paid to" select of the add-credit page
SetPaidTo(userId) ==
    /\ FormShown
    /\ page = "credit"
    /\ userId \in Range(members)
    /\ paidTo' = userId
    /\ UNCHANGED <<page, currentUser, members, description, amount, paidBy,
                   expenseType, splitType, selectedMemberIds, customShares>>
    /\ UNCHANGED <<errors, route, pc, splits, expenses, expense_splits,
                   group_members, invite, isLoading, toggles, groupPages>>

\* prev.includes(userId) ? prev.filter(id => id !== userId) : [...prev, userId]
ToggleAppendsAlways(prev, userId) == Append(prev, userId)
Toggle(prev, userId) ==
    IF userId \in Range(prev)
    THEN SelectSeq(prev, LAMBDA id : id # userId)
    ELSE Append(prev, userId)

\* onChange of a member's checkbox, shown while the split type is
\* equal_selected
ToggleSelectedMember(userId) ==
    /\ FormShown
    /\ page = "expense"
    /\ splitType = "equal_selected"
    /\ userId \in Range(members)
    /\ toggles[userId] < MaxToggles
    /\ selectedMemberIds' = Toggle(selectedMemberIds, userId)
    /\ toggles' = [toggles EXCEPT ![userId] = @ + 1]
    /\ UNCHANGED <<page, currentUser, members, description, amount, paidBy,
                   paidTo, expenseType, splitType, customShares>>
    /\ UNCHANGED <<errors, route, pc, splits, expenses, expense_splits,
                   group_members, invite, isLoading, groupPages>>

\* What the user types while filling in the form
LoadDescriptions == {"Dinner"}
LoadAmounts == {Num(30, 2), Num(1, 0)}
\* The member lists of group g1 the pages are opened on; the last one has
\* u2 twice
LoadGroups == {<<U(1)>>, <<U(1), U(2)>>, <<U(2), U(1)>>, <<U(1), U(2), U(2)>>}

\* The page is opened: nothing loaded yet
InitLoad ==
    /\ page \in {"expense", "credit"}
    /\ currentUser = null /\ members = <<>>
    /\ description = "" /\ amount = Blank /\ paidBy = "" /\ paidTo = ""
    /\ expenseType = "expense" /\ splitType = "equal_all"
    /\ selectedMemberIds = <<>> /\ customShares = AllBlank
    /\ descriptionError = null /\ amountError = null /\ splitError = null
    /\ participantError = null /\ generalError = null
    /\ route = "page" /\ pc = "idle" /\ splits = <<>>
    /\ expenses = <<>> /\ expense_splits = <<>>
    /\ group_members \in {MemberRows("g1", ids) : ids \in LoadGroups}
    /\ invite = <<>>
    /\ isLoading = TRUE
    /\ toggles = [u \in Users |-> 0]
    /\ NoGroupPages

LoadShares == {Num(10, 2), Num(20, 2)}

\* The form is filled in before the first submit
FillDescription ==
    \E value \in LoadDescriptions :
        pc = "idle" /\ description # value /\ HandleDescriptionChange(value)
FillAmount ==
    \E value \in LoadAmounts :
        pc = "idle" /\ amount # value /\ HandleAmountChange(value)
FillSplitType ==
    \E st \in {"equal_all", "equal_selected", "custom"} :
        pc = "idle" /\ splitType # st /\ SetSplitType(st)
FillSelected ==
    \E userId \in Users : pc = "idle" /\ ToggleSelectedMember(userId)
FillShare ==
    \E userId \in Users, value \in LoadShares :
        /\ pc = "idle" /\ customShares[userId] = Blank
        /\ HandleCustomShareChange(userId, value)
FillPaidBy ==
    \E userId \in Users : pc = "idle" /\ paidBy # userId /\ SetPaidBy(userId)
FillPaidTo ==
    \E userId \in Users : pc = "idle" /\ paidTo # userId /\ SetPaidTo(userId)

\* The page is followed up to its first expenses row
SubmitLoadedExpense == expenses = <<>> /\ HandleSubmitExpense
SubmitLoadedCredit == expenses = <<>> /\ HandleSubmitCredit

NextLoad ==
    \/ \E authUser \in Users \cup {null},
          membershipOk \in BOOLEAN, membersOk \in BOOLEAN,
          profilesOk \in BOOLEAN :
            LoadData(authUser, membershipOk, membersOk, profilesOk)
    \/ FillDescription
    \/ FillAmount
    \/ FillSplitType
    \/ FillSelected
    \/ FillShare
    \/ FillPaidBy
    \/ FillPaidTo
    \/ SubmitLoadedExpense
    \/ SubmitLoadedCredit

SpecLoad == InitLoad /\ [][NextLoad]_vars

\* ------------------------------------------- create-group page, dashboard
MaxGroups == 3       \* rows the groups table may hold

ErrGroupNameEmpty == "Please enter a group name."
ErrGroupNamePattern == "Group name can only contain letters, numbers, and spaces."

\* The id of the i-th groups row
G(i) == "g" \o ToString(i)
\* What is typed into the group name field
GroupNames == {"", "Trip!", " Goa ", "Goa"}
\* groupName.trim()
TrimName(raw) == IF raw = " Goa " THEN "Goa" ELSE raw
\* The names /^[A-Za-z0-9 ]+$/ accepts
GroupNamePattern == {"Goa"}

\* useState of the create-group page
CreatePage ==
    [user |-> null, groupName |-> "", error |-> null, nameError |-> null,
     isSubmitting |-> FALSE, isLoading |-> TRUE, route |-> "page"]

\* Steps of the create-group page and the dashboard leave the rest alone
OnlyGroupPages ==
    UNCHANGED <<form, errors, route, pc, splits, expenses, expense_splits,
                invite, isLoading, toggles>>

\* loadUser of the create-group page
CreateLoadUser(authUser) ==
    /\ create # <<>>
    /\ create.isLoading /\ create.route = "page"
    /\ create' = IF authUser = null
                 THEN [create EXCEPT !.route = LoginRoute]
                 ELSE [create EXCEPT !.user = authUser, !.isLoading = FALSE]
    /\ UNCHANGED <<groups, dashboard, group_members>>
    /\ OnlyGroupPages

\* onChange of the group name field
HandleGroupNameChange(value) ==
    /\ create # <<>>
    /\ ~create.isLoading /\ create.route = "page"
    /\ create.groupName # value
    /\ create' = [create EXCEPT !.groupName = value]
    /\ UNCHANGED <<groups, dashboard, group_members>>
    /\ OnlyGroupPages

\* The row of the creator
AdminRow(groupId, userId) ==
    [group_id |-> groupId, user_id |-> userId, role |-> "admin"]

\* handleSubmit of the create-group page: the checks of the name, then the
\* groups insert and the group_members insert, each of which can fail
HandleSubmitCreate ==
    /\ create # <<>>
    /\ ~create.isLoading /\ create.route = "page"
    /\ Len(groups) < MaxGroups
    /\ Len(group_members) < MaxMemberRows
    /\ LET cleared == [create EXCEPT !.error = null, !.nameError = null]
           name == TrimName(create.groupName)
       IN  IF name = ""
           THEN /\ create' = [cleared EXCEPT !.nameError = ErrGroupNameEmpty]
                /\ UNCHANGED <<groups, group_members>>
           ELSE IF name \notin GroupNamePattern
           THEN /\ create' = [cleared EXCEPT !.nameError = ErrGroupNamePattern]
                /\ UNCHANGED <<groups, group_members>>
           ELSE IF create.user = null
           THEN /\ create' = [cleared EXCEPT !.route = LoginRoute]
                /\ UNCHANGED <<groups, group_members>>
           ELSE \E groupOk \in BOOLEAN, memberOk \in BOOLEAN :
                  IF ~groupOk
                  THEN /\ create' = [cleared EXCEPT !.error = ErrStore]
                       /\ UNCHANGED <<groups, group_members>>
                  ELSE /\ groups' = Append(groups, [name |-> name,
                                                     created_by |-> create.user])
                       /\ IF ~memberOk
                          THEN /\ create' = [cleared EXCEPT !.error = ErrStore]
                               /\ UNCHANGED group_members
                          ELSE /\ group_members' =
                                    Append(group_members,
                                           AdminRow(G(Len(groups) + 1),
                                                    create.user))
                               /\ create' = [cleared EXCEPT
                                               !.route = DashboardRoute]
    /\ UNCHANGED dashboard
    /\ OnlyGroupPages

\* useState of the dashboard, its effect started: loadData waits for
\* getUser, the session listener is subscribed
DashboardPage ==
    [user |-> null, groups |-> <<>>, isLoading |-> TRUE, route |-> "page",
     pc |-> "getUser", authUser |-> null, subscribed |-> TRUE,
     mounted |-> TRUE, noSession |-> FALSE]

\* A state update of the dashboard: dropped once the page is unmounted
Set(next) == IF dashboard.mounted THEN next ELSE dashboard

\* loadData from the answer of getUser to the groups query
DashboardGetUser(authUser) ==
    /\ dashboard # <<>>
    /\ dashboard.pc = "getUser"
    /\ dashboard' =
         IF authUser = null
         THEN [Set([dashboard EXCEPT !.route = LoginRoute]) EXCEPT !.pc = "done"]
         ELSE [Set([dashboard EXCEPT !.user = authUser])
                 EXCEPT !.pc = "groups", !.authUser = authUser]
    /\ UNCHANGED <<groups, create, group_members>>
    /\ OnlyGroupPages

\* groups.select('id, name, created_at, group_members(count)') with the
\* embedded rows filtered by user_id: every groups row, with the number of
\* the user's rows in it
MappedGroups(userId) ==
    [i \in 1..Len(groups) |->
        [id |-> G(i), name |-> groups[i].name,
         membersCount |-> Cardinality(ExistingRows(G(i), userId))]]

\* loadData from the answer of the groups query to its end
DashboardGroups(groupsOk) ==
    /\ dashboard # <<>>
    /\ dashboard.pc = "groups"
    /\ dashboard' =
         [Set([dashboard EXCEPT
                 !.groups = IF groupsOk THEN MappedGroups(dashboard.authUser)
                            ELSE <<>>,
                 !.isLoading = FALSE])
            EXCEPT !.pc = "done"]
    /\ UNCHANGED <<groups, create, group_members>>
    /\ OnlyGroupPages

\* The onAuthStateChange callback, called while subscribed
AuthStateChange(session) ==
    /\ dashboard # <<>>
    /\ dashboard.subscribed
    /\ ~dashboard.noSession
    /\ dashboard' =
         IF session THEN dashboard
         ELSE [dashboard EXCEPT !.user = null, !.groups = <<>>,
                                !.route = LoginRoute, !.noSession = TRUE]
    /\ UNCHANGED <<groups, create, group_members>>
    /\ OnlyGroupPages

\* The cleanup of the effect: the dashboard unmounts once a navigation goes
\* through
DashboardUnmount ==
    /\ dashboard # <<>>
    /\ dashboard.mounted
    /\ dashboard.route # "page"
    /\ dashboard' = [dashboard EXCEPT !.mounted = FALSE, !.subscribed = FALSE]
    /\ UNCHANGED <<groups, create, group_members>>
    /\ OnlyGroupPages

\* One group in the store, created by u1; a create-group page and a
\* dashboard are opened
InitGroups ==
    /\ page = "groups" /\ currentUser = null /\ members = <<>>
    /\ description = "" /\ amount = Blank /\ paidBy = "" /\ paidTo = ""
    /\ expenseType = "expense" /\ splitType = "equal_all"
    /\ selectedMemberIds = <<>> /\ customShares = AllBlank
    /\ descriptionError = null /\ amountError = null /\ splitError = null
    /\ participantError = null /\ generalError = null
    /\ route = "page" /\ pc = "idle" /\ splits = <<>>
    /\ expenses = <<>> /\ expense_splits = <<>>
    /\ invite = <<>>
    /\ isLoading = TRUE
    /\ toggles = [u \in Users |-> 0]
    /\ groups = <<[name |-> "Trip", created_by |-> U(1)]>>
    /\ group_members = <<AdminRow(G(1), U(1))>>
    /\ create = CreatePage
    /\ dashboard = DashboardPage

NextGroups ==
    \/ \E authUser \in Users \cup {null} : CreateLoadUser(authUser)
    \/ \E value \in GroupNames : HandleGroupNameChange(value)
    \/ HandleSubmitCreate
    \/ \E authUser \in Users \cup {null} : DashboardGetUser(authUser)
    \/ \E groupsOk \in BOOLEAN : DashboardGroups(groupsOk)
    \/ \E session \in BOOLEAN : AuthStateChange(session)
    \/ DashboardUnmount

SpecGroups == InitGroups /\ [][NextGroups]_vars

\* =================================================================== claims
\* What the properties read off a state
Returned == pc = "returned"
NothingStored == expenses = <<>> /\ expense_splits = <<>> /\ route = "page"
\* The handler went on to the store: it was answered with an error or it
\* navigated to the group
ReachedStore == generalError = ErrStore \/ route = GroupRoute

\* A submit of the add-expense page whose description and amount pass
ExpenseSubmitted ==
    /\ page = "expense" /\ Returned
    /\ description \in DescriptionPattern
    /\ amount.txt = "num" /\ amount.milli > 0 /\ amount.frac <= 2
\* A submit of the add-credit page whose description and amount pass
CreditSubmitted ==
    /\ page = "credit" /\ Returned
    /\ description \in DescriptionPattern
    /\ amount.txt = "num" /\ amount.milli > 0 /\ amount.frac <= 2

\* The total in cents, the participants of an equal split and their number
T == RoundCents(amount.milli)
Participants == IF splitType = "equal_all" THEN members ELSE selectedMemberIds
N == Len(Participants)
EqualSplit == splitType \in {"equal_all", "equal_selected"}

\* The whole cents of a line, and the cents of all lines
LineCents(l) == RoundCents(l.amount)
RECURSIVE SumCents(_)
SumCents(rows) ==
    IF rows = <<>> THEN 0 ELSE LineCents(Head(rows)) + SumCents(Tail(rows))
RECURSIVE SumAmounts(_)
SumAmounts(rows) ==
    IF rows = <<>> THEN 0 ELSE Head(rows).amount + SumAmounts(Tail(rows))

\* The rows stored for the expense inserted last
LastSplitRows ==
    SelectSeq(expense_splits, LAMBDA r : r.expense_id = Len(expenses))
Lines(rows) == [i \in 1..Len(rows) |-> [user_id |-> rows[i].user_id,
                                         amount |-> rows[i].amount]]

\* A member's custom entry: typed at all, invalid, and its cents when valid
Typed(u) == customShares[u].txt # "blank"
Invalid(u) == Typed(u) /\ (customShares[u].txt = "nan" \/ customShares[u].milli < 0)
ShareCents(u) ==
    IF Typed(u) /\ ~Invalid(u) THEN RoundCents(customShares[u].milli) ELSE 0
RECURSIVE AcceptedSum(_)
AcceptedSum(i) ==
    IF i > Len(members) THEN 0 ELSE ShareCents(members[i]) + AcceptedSum(i + 1)
\* The lines of the members with a share of at least one cent, in member order
RECURSIVE ShareLines(_)
ShareLines(i) ==
    IF i > Len(members) THEN <<>>
    ELSE (IF ShareCents(members[i]) > 0
          THEN << [user_id |-> members[i],
                   amount |-> 10 * ShareCents(members[i])] >>
          ELSE <<>>) \o ShareLines(i + 1)

\* C1: an equal split of T > 0 cents between N >= 1 participants builds N
\* lines whose cents sum to T; every line carries floor(T/N) or floor(T/N)+1
\* cents and exactly T mod N lines carry floor(T/N)+1.
C1_EqualSplitSums ==
    (ExpenseSubmitted /\ EqualSplit /\ T > 0 /\ N >= 1) =>
        /\ Len(splits) = N
        /\ SumCents(splits) = T
        /\ \A i \in 1..N : LineCents(splits[i]) \in {T \div N, (T \div N) + 1}
        /\ Cardinality({i \in 1..N : LineCents(splits[i]) = (T \div N) + 1}) = T % N
        /\ route = GroupRoute => Lines(LastSplitRows) = splits

C1_Witness ==
    /\ ExpenseSubmitted /\ splitType = "equal_selected"
    /\ N = 3 /\ T = 5 /\ Len(members) = 3
    /\ route = GroupRoute /\ SumCents(LastSplitRows) = 5

\* C2: in an equal split the participant at position i (0-based) of the
\* participant order gets floor(T/N)+1 cents if i < T mod N and floor(T/N)
\* cents otherwise.
C2_RemainderToPrefix ==
    (ExpenseSubmitted /\ EqualSplit /\ T > 0 /\ N >= 1) =>
        /\ Len(splits) = N
        /\ \A i \in 1..N :
              /\ splits[i].user_id = Participants[i]
              /\ (i - 1 < T % N) <=> (LineCents(splits[i]) = (T \div N) + 1)
              /\ (i - 1 >= T % N) <=> (LineCents(splits[i]) = T \div N)

C2_Witness ==
    /\ ExpenseSubmitted /\ splitType = "equal_all" /\ T = 4
    /\ members = <<U(3), U(1), U(2)>>
    /\ splits = << [user_id |-> U(3), amount |-> 20],
                   [user_id |-> U(1), amount |-> 10],
                   [user_id |-> U(2), amount |-> 10] >>

\* C3 (as claimed): a custom split in which some member's typed entry is
\* unparseable or negative is rejected with the invalid-share message and
\* stores nothing, also when the valid entries sum exactly to the total.
C3_InvalidShareRejected ==
    (/\ ExpenseSubmitted /\ splitType = "custom" /\ T > 0
     /\ \E i \in 1..Len(members) : Invalid(members[i])
     /\ AcceptedSum(1) = T) =>
        /\ splitError = ErrInvalidShare
        /\ NothingStored

\* C4: a custom split whose accepted shares, in cents, do not sum to the
\* total in cents fails with the total-mismatch message and stores nothing.
C4_MismatchRejected ==
    (ExpenseSubmitted /\ splitType = "custom" /\ AcceptedSum(1) # T) =>
        /\ splitError = ErrTotalMismatch
        /\ splits = <<>>
        /\ NothingStored

\* two shares of half a cent are two cents, one cent more than a total of
\* one cent, although the typed values add up to the total
C4_Witness ==
    /\ ExpenseSubmitted /\ splitType = "custom" /\ T = 1
    /\ members = <<U(1), U(2)>>
    /\ customShares[U(1)] = Num(5, 3) /\ customShares[U(2)] = Num(5, 3)
    /\ AcceptedSum(1) = T + 1
    /\ splitError = ErrTotalMismatch

\* C5 (as claimed): a custom split of a positive total in which every entry
\* is blank or zero fails with the empty-custom-set message.
C5_EmptyCustomSet ==
    (/\ ExpenseSubmitted /\ splitType = "custom" /\ T > 0
     /\ \A i \in 1..Len(members) :
           ~Typed(members[i]) \/ customShares[members[i]] = Num(0, 0)) =>
        splitError = ErrEmptyCustom

C7_EqualLinesPositive ==
    (ExpenseSubmitted /\ EqualSplit /\ T > 0 /\ N >= 1) =>
        /\ \A i \in 1..Len(splits) : splits[i].amount > 0
        /\ \A i \in 1..Len(expense_splits) : expense_splits[i].amount > 0

\* C8: an equal split over an empty participant list fails with a
\* no-participants message in splitError and stores nothing.
C8_NoParticipants ==
    (ExpenseSubmitted /\ EqualSplit /\ N = 0) =>
        /\ splitError = (IF splitType = "equal_selected" THEN ErrSelectMember
                         ELSE ErrNoMembers)
        /\ splits = <<>>
        /\ NothingStored

C8_Witness ==
    /\ ExpenseSubmitted /\ splitType = "equal_selected"
    /\ Len(members) = 2 /\ selectedMemberIds = <<>>
    /\ splitError = ErrSelectMember /\ NothingStored

\* C9: a credit submit that succeeded has stored exactly two split lines for
\* the new expense, (paidBy, -A) and (paidTo, +A) with paidBy # paidTo, and
\* their amounts sum to zero.
C9_CreditTwoLines ==
    (page = "credit" /\ route = GroupRoute) =>
        /\ paidBy # paidTo
        /\ amount.milli > 0
        /\ expense_splits =
              << [expense_id |-> Len(expenses), user_id |-> paidBy,
                  amount |-> 0 - amount.milli],
                 [expense_id |-> Len(expenses), user_id |-> paidTo,
                  amount |-> amount.milli] >>
        /\ SumAmounts(expense_splits) = 0

C9_Witness ==
    /\ page = "credit" /\ route = GroupRoute
    /\ paidBy = U(2) /\ paidTo = U(1) /\ amount = Num(30, 2)
    /\ Len(expense_splits) = 2 /\ Len(expenses) = 1

\* C10: a credit submit whose payer and recipient are the same participant
\* fails with the same-participant message and stores nothing.
C10_SameParticipantRejected ==
    (CreditSubmitted /\ paidBy = paidTo /\ paidBy # "") =>
        /\ participantError = ErrSameParticipant
        /\ NothingStored

C10_Witness ==
    /\ CreditSubmitted /\ paidBy = U(2) /\ paidTo = U(2)
    /\ Len(members) = 2
    /\ participantError = ErrSameParticipant /\ expenses = <<>>

\* The rows stored for the expense with id i
SplitRowsOf(i) == SelectSeq(expense_splits, LAMBDA r : r.expense_id = i)

\* C11 (as claimed): every stored record of type 'credit' has exactly two
\* split lines, its payer with -amount and another user with +amount,
\* whichever page stored it.
C11_CreditRecordsTwoLines ==
    \A i \in 1..Len(expenses) :
        expenses[i].type = "credit" =>
            /\ Len(SplitRowsOf(i)) = 2
            /\ SplitRowsOf(i)[1].user_id = expenses[i].paid_by
            /\ SplitRowsOf(i)[1].amount = 0 - expenses[i].amount
            /\ SplitRowsOf(i)[2].user_id # expenses[i].paid_by
            /\ SplitRowsOf(i)[2].amount = expenses[i].amount

\* An amount field the claim wants rejected: blank or not a number, zero or
\* negative, or a value with more than two fractional digits
BadAmount ==
    \/ amount.txt # "num"
    \/ amount.milli <= 0
    \/ amount.milli % 10 # 0
    \/ amount.frac > 2

\* C12 (as claimed): a submit of either page whose amount is zero, negative,
\* not a number or has more than two fractional digits ends with an amount
\* message, builds no split and stores nothing.
C12_BadAmountRejected ==
    (Returned /\ description \in DescriptionPattern /\ BadAmount) =>
        /\ amountError # null
        /\ splits = <<>>
        /\ NothingStored

\* C13 (as claimed): an add-expense submit that ends with a split message set
\* has stored nothing and has not navigated away.
C13_SplitErrorStoresNothing ==
    (page = "expense" /\ Returned /\ splitError # null) =>
        /\ NothingStored
        /\ generalError = null

\* C14: after an add-expense submit that succeeded, the expense_splits rows
\* are exactly the built split lines, one row per line in the same order,
\* each with the id of the new expenses row, the line's user and amount.
C14_RowsAreTheLines ==
    (page = "expense" /\ route = GroupRoute) =>
        /\ Len(splits) >= 1
        /\ Len(expense_splits) = Len(splits)
        /\ \A i \in 1..Len(splits) :
              expense_splits[i] = [expense_id |-> Len(expenses),
                                   user_id |-> splits[i].user_id,
                                   amount |-> splits[i].amount]
        /\ expenses[Len(expenses)].amount = amount.milli

C14_Witness ==
    /\ page = "expense" /\ route = GroupRoute /\ splitType = "custom"
    /\ Len(expenses) = 2
    /\ members = <<U(1), U(2)>>
    /\ expense_splits = << [expense_id |-> 2, user_id |-> U(1), amount |-> 30],
                           [expense_id |-> 2, user_id |-> U(2), amount |-> 10] >>

\* The add-expense form passes the description and amount checks
ExpenseFormValid ==
    /\ page = "expense"
    /\ description \in DescriptionPattern
    /\ amount.txt = "num" /\ amount.milli > 0 /\ amount.frac <= 2

\* The share fields hold the amounts of the lines built by the last submit,
\* the fields of the other members are blank or zero
FedBack ==
    /\ splits # <<>>
    /\ \A i \in 1..Len(splits) :
          customShares[splits[i].user_id] = FormatAmount(splits[i].amount)
    /\ \A u \in Users \ {splits[i].user_id : i \in 1..Len(splits)} :
          customShares[u] \in {Blank, Num(0, 0)}

\* C15: a custom submit whose shares are the amounts of the lines an equal
\* split of the same total T > 0 built (zero amounts included) is accepted:
\* no split message, the handler goes on to the store, the lines sum to T.
C15_RoundTripAccepted ==
    [][(/\ ExpenseFormValid /\ T > 0 /\ splitType = "custom" /\ FedBack
        /\ form' = form /\ pc' = "returned")
         => /\ splitError' = null
            /\ ReachedStore'
            /\ SumCents(splits') = T
            /\ \A k \in 1..Len(splits') :
                  customShares[splits'[k].user_id] = FormatAmount(splits'[k].amount)]_vars

C15_Witness ==
    /\ ExpenseSubmitted /\ splitType = "custom" /\ T = 2
    /\ members = <<U(2), U(3), U(1)>>
    /\ customShares[U(2)] = Num(10, 2)
    /\ customShares[U(3)] = Num(10, 2)
    /\ customShares[U(1)] = Num(0, 0)
    /\ route = GroupRoute
    /\ Len(LastSplitRows) = 2

\* The number of lines of rows that carry c cents
CountCents(rows, c) == Cardinality({i \in 1..Len(rows) : LineCents(rows[i]) = c})
\* The orders of the elements of a sequence without repetition
Orderings(p) == {q \in SeqsOver(Range(p)) : Len(q) = Len(p)}

\* C16: the lines an equal split builds for a participant order and the lines
\* it builds for any permutation of that order carry the same amounts, as a
\* multiset, and the same sum; line i is for the i-th participant of the
\* order it was built for.
C16_PermutationKeepsAmounts ==
    (ExpenseSubmitted /\ EqualSplit /\ N >= 1) =>
        \A q \in Orderings(Participants) :
            LET other == EqualSplits(T, q) IN
            /\ Len(other) = Len(splits)
            /\ \A c \in 0..(T + 1) : CountCents(other, c) = CountCents(splits, c)
            /\ SumCents(other) = SumCents(splits)
            /\ \A i \in 1..N : other[i].user_id = q[i]
            /\ \A i \in 1..N : splits[i].user_id = Participants[i]

\* u2 before u1 gives u2 the extra cent, u1 before u2 gives it to u1
C16_Witness ==
    /\ ExpenseSubmitted /\ splitType = "equal_selected" /\ T = 3
    /\ selectedMemberIds = <<U(2), U(1)>>
    /\ splits = << [user_id |-> U(2), amount |-> 20],
                   [user_id |-> U(1), amount |-> 10] >>
    /\ EqualSplits(T, <<U(1), U(2)>>) = << [user_id |-> U(1), amount |-> 20],
                                           [user_id |-> U(2), amount |-> 10] >>

\* C17: a submit of the add-expense form that repeats the form of the submit
\* before it leaves the same messages and builds the same lines, whatever the
\* earlier submit did to the store.
C17_SameFormSameOutcome ==
    [][(page = "expense" /\ pc = "returned" /\ pc' = "returned" /\ form' = form)
         => /\ descriptionError' = descriptionError
            /\ amountError' = amountError
            /\ splitError' = splitError
            /\ splits' = splits]_vars

\* two attempts whose splits insert failed: both built the same lines
C17_Witness ==
    /\ page = "expense" /\ Returned /\ splitType = "equal_all"
    /\ Len(expenses) = 2 /\ expense_splits = <<>>
    /\ Len(splits) = 3 /\ T = 4
    /\ generalError = ErrStore

\* The amount a pair of credit lines gives user u
AmountFor(rows, u) ==
    LET i == CHOOSE k \in 1..Len(rows) : rows[k].user_id = u IN rows[i].amount

\* C18: a credit of A from p to r stores (p, -A), (r, +A); the credit of A
\* from r to p gives (r, -A), (p, +A): each participant's amount changes sign.
C18_SwapNegates ==
    (page = "credit" /\ route = GroupRoute) =>
        LET A == amount.milli
            id == Len(expenses)
            swapped == CreditSplits(id, paidTo, paidBy, A)
        IN  /\ Lines(expense_splits) = << [user_id |-> paidBy, amount |-> 0 - A],
                                          [user_id |-> paidTo, amount |-> A] >>
            /\ Lines(swapped) = << [user_id |-> paidTo, amount |-> 0 - A],
                                   [user_id |-> paidBy, amount |-> A] >>
            /\ \A u \in {paidBy, paidTo} :
                  AmountFor(swapped, u) = 0 - AmountFor(expense_splits, u)

C18_Witness ==
    /\ page = "credit" /\ route = GroupRoute
    /\ paidBy = U(1) /\ paidTo = U(3) /\ amount = Num(20, 2)
    /\ AmountFor(expense_splits, U(1)) = -20
    /\ AmountFor(expense_splits, U(3)) = 20

\* C19 (as claimed): every expenses row has at least one expense_splits row.
C19_NoExpenseWithoutSplits ==
    \A i \in 1..Len(expenses) : Len(SplitRowsOf(i)) >= 1

\* C20 (as claimed): group_members holds at most one row per (group, user).
C20_OneRowPerGroupAndUser ==
    \A i, j \in 1..Len(group_members) :
        (/\ group_members[i].group_id = group_members[j].group_id
         /\ group_members[i].user_id = group_members[j].user_id) => i = j

\* User u has a group_members row of group g
IsMember(g, u) ==
    \E i \in 1..Len(group_members) :
        group_members[i].group_id = g /\ group_members[i].user_id = u

\* C21 (as claimed): an invite page inserts a group_members row for a group
\* only when its signed-in user is a member of that group.
C21_OnlyMembersInvite ==
    [][\A c \in Clients :
          (/\ invite[c].pc = "insert" /\ invite'[c].pc = "idle"
           /\ Len(group_members') > Len(group_members))
             => IsMember(invite[c].groupId, invite[c].currentUser)]_vars

\* The page was opened by nobody signed in or by a user without a row of the
\* group (group_members does not change while the page is followed)
Outsider == currentUser = null \/ ~IsMember("g1", currentUser)

\* Neither table has a row
NoRows == expenses = <<>> /\ expense_splits = <<>>

\* C22 (as claimed): for an unauthenticated user or a non-member isLoading
\* stays true, so the form is never shown, and no expenses or expense_splits
\* row is inserted.
C22_OutsiderNeverGetsForm ==
    (page \in {"expense", "credit"} /\ Outsider) =>
        /\ isLoading
        /\ NoRows

\* C22 (amended): an unauthenticated user never gets the form; a non-member
\* gets it only when the membership query failed, with the access message and
\* an empty member list; either way no expenses or expense_splits row is
\* inserted.
C22_OutsiderInsertsNothing ==
    (page \in {"expense", "credit"} /\ Outsider) =>
        /\ NoRows
        /\ route \in {"page", LoginRoute, DashboardRoute}
        /\ currentUser = null => isLoading
        /\ ~isLoading => /\ members = <<>>
                         /\ paidBy = "" /\ paidTo = ""
                         /\ generalError = ErrVerifyAccess \/ pc = "returned"

\* a non-member whose membership query failed filled in the form and
\* submitted it
C22_Witness ==
    /\ page = "expense" /\ currentUser = U(3) /\ ~IsMember("g1", U(3))
    /\ ~isLoading /\ pc = "returned"
    /\ description = "Dinner" /\ amount = Num(30, 2)
    /\ splitError = ErrNoMembers
    /\ NoRows

\* C23 (as claimed): the share an equal_selected split gives a member is the
\* same for every click order of the same selected members.
C23_SharesDependOnSetOnly ==
    (ExpenseSubmitted /\ splitType = "equal_selected" /\ splits # <<>>) =>
        \A q \in Orderings(selectedMemberIds) :
            \A u \in Range(selectedMemberIds) :
                AmountFor(EqualSplits(T, q), u) = AmountFor(splits, u)

\* C24: selectedMemberIds holds no id twice and holds an id exactly when
\* toggleSelectedMember was called an odd number of times for it; the lines
\* of an equal_selected split are for pairwise different users.
C24_SelectedMatchesToggles ==
    page = "expense" =>
        /\ \A i, j \in 1..Len(selectedMemberIds) :
              selectedMemberIds[i] = selectedMemberIds[j] => i = j
        /\ \A u \in Users :
              u \in Range(selectedMemberIds) <=> toggles[u] % 2 = 1
        /\ (Returned /\ splitType = "equal_selected") =>
              \A i, j \in 1..Len(splits) :
                  splits[i].user_id = splits[j].user_id => i = j

\* u1 selected and deselected, u2 selected, then submitted
C24_Witness ==
    /\ page = "expense" /\ Returned /\ splitType = "equal_selected"
    /\ toggles[U(1)] = 2 /\ toggles[U(2)] = 1
    /\ selectedMemberIds = <<U(2)>>
    /\ splits = <<[user_id |-> U(2), amount |-> 30]>>

\* C25: every stored expenses row names a loaded member as paid_by, every
\* stored split line is for a loaded member, and nothing is stored while the
\* loaded member list is empty.
C25_StoredUsersAreMembers ==
    page \in {"expense", "credit"} =>
        /\ \A i \in 1..Len(expenses) : expenses[i].paid_by \in Range(members)
        /\ \A i \in 1..Len(expense_splits) :
              expense_splits[i].user_id \in Range(members)
        /\ members = <<>> => NoRows

\* u1 loaded [u1, u2], chose u2 as payer and a custom split
C25_Witness ==
    /\ page = "expense" /\ route = GroupRoute
    /\ currentUser = U(1) /\ members = <<U(1), U(2)>>
    /\ splitType = "custom"
    /\ expenses[1].paid_by = U(2)
    /\ Lines(expense_splits) = << [user_id |-> U(1), amount |-> 10],
                                  [user_id |-> U(2), amount |-> 20] >>

\* Group g1 has exactly one group_members row
OneMember ==
    Cardinality({i \in 1..Len(group_members) :
                    group_members[i].group_id = "g1"}) = 1

\* C28 (as claimed): in a group with exactly one member every submit of the
\* add-credit page ends with the same-participant message and no credit is
\* stored.
C28_EverySubmitSameParticipant ==
    (page = "credit" /\ OneMember /\ Returned) =>
        /\ participantError = ErrSameParticipant
        /\ NoRows

\* C28 (amended): in a group with exactly one member the add-credit page
\* stores no credit; once the member is loaded, paidBy and paidTo are both
\* that member, and a submit that passes the description and amount checks
\* ends with the same-participant message (with the select-both message
\* when loading failed and both are still empty).
C28_SingleMemberNoCredit ==
    (page = "credit" /\ OneMember) =>
        /\ NoRows
        /\ route # GroupRoute
        /\ members # <<>> => /\ members = <<group_members[1].user_id>>
                             /\ paidBy = members[1] /\ paidTo = members[1]
        /\ members = <<>> => paidBy = "" /\ paidTo = ""
        /\ CreditSubmitted =>
              participantError = IF members = <<>> THEN ErrSelectBoth
                                 ELSE ErrSameParticipant

C28_Witness ==
    /\ page = "credit" /\ OneMember /\ CreditSubmitted
    /\ currentUser = U(1) /\ members = <<U(1)>>
    /\ paidBy = U(1) /\ paidTo = U(1)
    /\ participantError = ErrSameParticipant
    /\ NoRows

\* C26 (as claimed): every groups row the page created has the
\* group_members row of its creator with role admin, and the page goes to
\* the dashboard only after both inserts.
C26_GroupHasAdmin ==
    create # <<>> =>
        /\ \A i \in 1..Len(groups) :
              \E j \in 1..Len(group_members) :
                  group_members[j] = AdminRow(G(i), groups[i].created_by)
        /\ create.route = DashboardRoute =>
              /\ groups[Len(groups)].created_by = create.user
              /\ group_members[Len(group_members)] =
                   AdminRow(G(Len(groups)), create.user)

\* C27 (as claimed): once the session callback has run without a session,
\* the dashboard holds no user and no groups; an unmounted dashboard has no
\* subscription.
C27_NothingAfterSessionLoss ==
    dashboard # <<>> =>
        /\ dashboard.noSession =>
              dashboard.user = null /\ dashboard.groups = <<>>
        /\ ~dashboard.mounted => ~dashboard.subscribed

====
